---- MODULE Spec2Model ----
(***************************************************************************)
(* Docgen: project parse (build + registration), the member registry, the  *)
(* dependency resolver, the method cache and the description generation.   *)
(*                                                                         *)
(* A project is a finite set of files.  BaseParser.parse builds every file *)
(* (JavaFile.from_source -> JavaClass.from_node -> JavaMethod.from_node),  *)
(* registering every method in MemberRegistry as it is created, and then   *)
(* runs resolve_dependencies over the built files.                         *)
(*                                                                         *)
(* Strings built by concatenation with a separator are kept as tuples of   *)
(* their parts: class_name + "." + identifier is <<class_name, identifier>>*)
(* (an identifier holds no dot, so the pair and the string determine each  *)
(* other).                                                                 *)
(*                                                                         *)
(* Three things the code under src/ reads are defined by no code under    *)
(* src/, and are taken from the design document of the project:            *)
(*  - the attributes umid, scoped_identifier and body_hash of a method;    *)
(*  - MemberRegistry.methods (keys "Class.method") and                     *)
(*    MemberRegistry.methods_by_name (keys "method"), the names under      *)
(*    which the resolver reads the registry: they are read as the indices  *)
(*    map_scoped and map_short, which hold what these names stand for;     *)
(*  - the class objects GeminiClient.generate_description is called with   *)
(*    (ucid, methods as a mapping from umid to Method, child_classes as a  *)
(*    mapping, description), the orchestrator that calls it and the run    *)
(*    that parses with the cache and then generates.                       *)
(* A method object has the attributes the code under src/ gives it: it has *)
(* a description once MemberRegistry.load_cache has assigned one.          *)
(*                                                                         *)
(* Texts (bodies, descriptions, error messages) are sequences of tokens;   *)
(* the empty string is the empty sequence.                                 *)
(*                                                                         *)
(* Spec is the parse (BaseParser.parse).  GenSpec is what a run does after *)
(* the parse: load the cache, generate the missing descriptions, one       *)
(* concurrent task per class, and export the cache.  GateSpec is that run  *)
(* for four classes at a gate of SemaphoreSlots slots, and ChangeSpec that *)
(* run with the method collections of the classes changing under the calls.*)
(***************************************************************************)
EXTENDS Integers, Sequences, FiniteSets, TLC

\* number of files found by the traversal of the project directory
NumFiles == 3

\* slots of the small concurrency gate: fewer than a project has classes, so
\* that tasks do have to queue at it
SemaphoreSlots == 2

\* GeminiClient.__init__: self.semaphore = asyncio.Semaphore(200)
semaphore_value == 200

\* the gates a run is followed with: the one GeminiClient creates, at which
\* no task of a project of a few classes ever waits, and the small one
GateSlots == {semaphore_value, SemaphoreSlots}

max_retries == 3

base_delay == 2

----------------------------------------------------------------------------
(* Source units.  A method declaration carries what from_node extracts:    *)
(* the enclosing class name, the identifier, the parameter type list,      *)
(* whether a body node is present, and the call sites of the body (name    *)
(* and argument count as written in the source text).                      *)

MethodDecl(c, id, ps, hasBody, cs) ==
    [class_name |-> c, identifier |-> id, parameters |-> ps,
     body_node |-> hasBody, calls |-> cs]

Call(n, k) == [name |-> n, argc |-> k]

ClassDecl(n, isNested, ms) == [name |-> n, nested |-> isNested, methods |-> ms]

\* a class nested in another: its name is parent name + "." + identifier
NestedClassDecl(n, id, ms) ==
    [name |-> n, identifier |-> id, nested |-> TRUE, methods |-> ms]

SourceFile(sfx, imps, cls) == [suffix |-> sfx, imports |-> imps, classes |-> cls]

\* a method node: name_node tells whether the node has its name field
MethodNode(c, hasName, id, ps, hasBody, cs) ==
    [class_name |-> c, identifier |-> id, parameters |-> ps,
     body_node |-> hasBody, calls |-> cs, name_node |-> hasName]

\* a field node: the text of its type, whether it has a
\* variable_declarator child, whether the declarator has its name field,
\* and the name
FieldNode(t, hasDeclarator, hasName, id) ==
    [type |-> t, declarator |-> hasDeclarator, name_node |-> hasName,
     identifier |-> id]

\* a class declaration with fields
ClassDeclFields(n, fs, ms) ==
    [name |-> n, nested |-> FALSE, methods |-> ms, fields |-> fs]

\* a class node: whether it has its name field and its class_body child,
\* and the field and method nodes of the body
ClassNode(hasName, n, hasBody, fs, ms) ==
    [name |-> n, nested |-> FALSE, methods |-> ms, fields |-> fs,
     name_node |-> hasName, class_body |-> hasBody]

\* class A { helper() {}  rec(int) { rec(..); foo(..); } }
FileA ==
    SourceFile(".java", <<>>,
      << ClassDecl("A", FALSE,
           << MethodDecl("A", "helper", <<>>, TRUE, {}),
              MethodDecl("A", "rec", <<"int">>, TRUE,
                         {Call("rec", 1), Call("foo", 1)}) >>) >>)

\* import A;  class B { run() { helper(); foo(1, 2); } }
FileB ==
    SourceFile(".java", <<"A">>,
      << ClassDecl("B", FALSE,
           << MethodDecl("B", "run", <<>>, TRUE,
                         {Call("helper", 0), Call("foo", 2)}) >>) >>)

\* class O { int total;  int last;  foo(int) {}  calc(int) { max(..) }
\*           foo(int,int) {} }
FileO ==
    SourceFile(".java", <<>>,
      << ClassDeclFields("O",
           << FieldNode("int", TRUE, TRUE, "total"),
              FieldNode("int", TRUE, TRUE, "last") >>,
           << MethodDecl("O", "foo", <<"int">>, TRUE, {}),
              MethodDecl("O", "calc", <<"int">>, TRUE, {Call("max", 2)}),
              MethodDecl("O", "foo", <<"int", "int">>, TRUE, {}) >>) >>)

\* class C { helper() {}  stop(); }
FileC ==
    SourceFile(".java", <<>>,
      << ClassDecl("C", FALSE,
           << MethodDecl("C", "helper", <<>>, TRUE, {}),
              MethodDecl("C", "stop", <<>>, FALSE, {}) >>) >>)

\* class N { outer() { inner(); }  idle() {}
\*           class I { inner() { helper(); } } }
FileN ==
    SourceFile(".java", <<>>,
      << ClassDecl("N", FALSE,
           << MethodDecl("N", "outer", <<>>, TRUE, {Call("inner", 0)}),
              MethodDecl("N", "idle", <<>>, TRUE, {}) >>),
         NestedClassDecl("N.I", "I",
           << MethodDecl("N.I", "inner", <<>>, TRUE, {Call("helper", 0)}) >>) >>)

\* a file of the directory that is no Java source
FileT == SourceFile(".txt", <<>>, <<>>)

Catalogue == <<FileA, FileB, FileO, FileC, FileN, FileT>>

\* class U { int ;  int count;  <no name>() {}  last() { helper(); } }: a
\* field without declarator and a method node without name field
FileU ==
    SourceFile(".java", <<>>,
      << ClassNode(TRUE, "U", TRUE,
           << FieldNode("int", FALSE, FALSE, ""),
              FieldNode("int", TRUE, TRUE, "count") >>,
           << MethodNode("U", FALSE, "", <<>>, TRUE, {}),
              MethodNode("U", TRUE, "last", <<>>, TRUE,
                         {Call("helper", 0)}) >>) >>)

\* class P { first() {} }  class <no name> { lost() {} }  class Q { second() {} }
FileX ==
    SourceFile(".java", <<>>,
      << ClassNode(TRUE, "P", TRUE, <<>>,
           << MethodNode("P", TRUE, "first", <<>>, TRUE, {}) >>),
         ClassNode(FALSE, "", TRUE, <<>>,
           << MethodNode("", TRUE, "lost", <<>>, TRUE, {}) >>),
         ClassNode(TRUE, "Q", TRUE, <<>>,
           << MethodNode("Q", TRUE, "second", <<>>, TRUE, {}) >>) >>)

\* class Y <no body>
FileY ==
    SourceFile(".java", <<>>, << ClassNode(TRUE, "Y", FALSE, <<>>, <<>>) >>)

NodeCatalogue == <<FileA, FileU, FileX, FileY>>

\* the directories that hold files with malformed members
NodeProjects ==
    {[f \in 1 .. NumFiles |-> NodeCatalogue[ix[f]]] :
       ix \in {jx \in [1 .. NumFiles -> 1 .. Len(NodeCatalogue)] :
                 \A f \in 1 .. NumFiles - 1 : jx[f] <= jx[f + 1]}}

\* the contents a directory of NumFiles files can have.  The traversal takes
\* the files in any order, so a directory is listed once, its files in
\* catalogue order (two files may have the same content)
Projects ==
    {[f \in 1 .. NumFiles |-> Catalogue[ix[f]]] :
       ix \in {jx \in [1 .. NumFiles -> 1 .. Len(Catalogue)] :
                 \A f \in 1 .. NumFiles - 1 : jx[f] <= jx[f + 1]}}

FileIds == 1 .. NumFiles

----------------------------------------------------------------------------
VARIABLES
    project,        \* file id -> source unit (the directory's content)
    pending,        \* files the traversal has not reached yet
    files,          \* BaseParser.files: built file objects, in build order
    rpos,           \* methods the resolution pass has gone through
    map_umid,       \* MemberRegistry.map_umid
    map_scoped,     \* MemberRegistry.map_scoped
    map_short,      \* MemberRegistry.map_short
    dependencies,   \* method object -> its dependencies list
    unresolved_dependencies,
                    \* method object -> its list of unresolved names, for
                    \* the objects that have the attribute
    class_methods,  \* class object -> the values of its methods mapping
    description,    \* method or class object -> its description, for the
                    \* objects that have the attribute
    confidence,     \* method or class object -> its confidence, for the
                    \* objects that have the attribute
    method_cache,   \* MemberRegistry.method_cache
    cache_file,     \* the cache as persisted between runs
    stage,          \* how far the run is
    semaphore,      \* GeminiClient.semaphore: free slots and queued tasks
    task            \* class object -> its generation task

parsevars == <<project, pending, files, rpos, map_umid, map_scoped, map_short,
               dependencies, unresolved_dependencies, class_methods>>

genvars == <<method_cache, cache_file, stage, semaphore, task>>

vars == <<project, pending, files, rpos, map_umid, map_scoped, map_short,
          dependencies, unresolved_dependencies, class_methods, description,
          confidence, method_cache, cache_file, stage, semaphore, task>>

----------------------------------------------------------------------------
(* Method objects.  A method object is named by where it was built from:   *)
(* <<file, class index, method index>>.                                    *)

\* JavaMethod.from_node: the identifier is the text of the name field,
\* "<init>" for a node without it
JavaMethod_from_node(node) ==
    IF "name_node" \in DOMAIN node /\ ~node.name_node
    THEN [node EXCEPT !.identifier = "<init>"]
    ELSE node

\* JavaField.from_node: the identifier is "Unknown" unless the node has a
\* declarator with a name
JavaField_from_node(node) ==
    [identifier |-> IF node.declarator /\ node.name_node
                    THEN node.identifier ELSE "Unknown",
     type |-> node.type]

\* JavaField.signature of a field without modifiers and without value
field_signature(field) == <<field.type, " ", field.identifier>>

\* JavaClass.from_node raises: identifier_node.text of a node without name
\* field, body_node.children of a node without class_body
JavaClass_from_node_raises(node) ==
    /\ "name_node" \in DOMAIN node
    /\ ~node.name_node \/ ~node.class_body

Decl(m) == JavaMethod_from_node(project[m[1]].classes[m[2]].methods[m[3]])

umid(m) == <<Decl(m).class_name, Decl(m).identifier, Decl(m).parameters>>

scoped_identifier(m) == <<Decl(m).class_name, Decl(m).identifier>>

identifier(m) == Decl(m).identifier

arity(m) == Len(Decl(m).parameters)

\* the method objects from_node creates for class c of file f, in body order
ClassMethods(f, c) ==
    [i \in 1 .. Len(project[f].classes[c].methods) |-> <<f, c, i>>]

RECURSIVE Flatten(_)
Flatten(ss) == IF ss = <<>> THEN <<>> ELSE Head(ss) \o Flatten(Tail(ss))

\* every method object from_source creates for file f, in creation order
FileMethods(f) ==
    Flatten([c \in 1 .. Len(project[f].classes) |-> ClassMethods(f, c)])

Range(s) == {s[i] : i \in 1 .. Len(s)}

\* the index of the first class of file f whose from_node raises, 0 when
\* from_source returns
Raises(f) ==
    LET bad == {c \in 1 .. Len(project[f].classes) :
                  JavaClass_from_node_raises(project[f].classes[c])}
    IN  IF bad = {} THEN 0
        ELSE CHOOSE c \in bad : \A d \in bad : c <= d

\* the method objects from_source has created, and registered, when the
\* from_node of class Raises(f) raises
MethodsBefore(f) ==
    Flatten([c \in 1 .. Raises(f) - 1 |-> ClassMethods(f, c)])

\* the fields of class object cl: identifier -> JavaField, the field built
\* last under an identifier replacing the one before
fields(cl) ==
    LET node == project[cl[1]].classes[cl[2]]
        fs == IF "fields" \in DOMAIN node THEN node.fields ELSE <<>>
    IN  [id \in {JavaField_from_node(fs[i]).identifier : i \in 1 .. Len(fs)} |->
           CHOOSE i \in 1 .. Len(fs) :
              /\ JavaField_from_node(fs[i]).identifier = id
              /\ \A j \in 1 .. Len(fs) :
                    JavaField_from_node(fs[j]).identifier = id => j <= i]

\* fields.values(): the fields of the dict in the order their identifiers
\* were first inserted in
fields_values(cl) ==
    LET node == project[cl[1]].classes[cl[2]]
        fs == IF "fields" \in DOMAIN node THEN node.fields ELSE <<>>
        first == SelectSeq([i \in 1 .. Len(fs) |-> i],
                           LAMBDA i : \A j \in 1 .. i - 1 :
                              JavaField_from_node(fs[j]).identifier
                                 /= JavaField_from_node(fs[i]).identifier)
    IN  [k \in 1 .. Len(first) |->
           JavaField_from_node(
              fs[fields(cl)[JavaField_from_node(fs[first[k]]).identifier]])]

\* the text of a field declaration inside the body of its class
FieldText(node) ==
    <<node.type, " ">>
    \o (IF node.declarator /\ node.name_node THEN <<node.identifier>> ELSE <<>>)
    \o <<";">>

\* the text of the field declarations of class c of file f, in body order
FieldsText(f, c) ==
    LET node == project[f].classes[c]
        fs == IF "fields" \in DOMAIN node THEN node.fields ELSE <<>>
    IN  Flatten([i \in 1 .. Len(fs) |-> <<" ">> \o FieldText(fs[i])])

\* Class objects: <<file, class index>>
FileClasses(f) == {<<f, c>> : c \in 1 .. Len(project[f].classes)}

ucid(cl) == project[cl[1]].classes[cl[2]].name

\* JavaClass.identifier: the text of the name field; the name of a class at
\* the top level of a file without package is its identifier
class_identifier(cl) ==
    IF "identifier" \in DOMAIN project[cl[1]].classes[cl[2]]
    THEN project[cl[1]].classes[cl[2]].identifier
    ELSE project[cl[1]].classes[cl[2]].name

\* JavaClass.signature of a class without modifiers, type parameters,
\* superclass and interfaces: the access level of such a class is
\* "protected"
class_signature(cl) == <<"protected", " ", "class", " ", class_identifier(cl)>>

\* the values of the methods mapping of class object cl, a mapping from
\* method id (umid) to Method with unique keys, in insertion order: as the
\* class is built, the methods of the class in the order they were built in
\* (no class of the catalogues declares two methods of one umid)
methods(cl) == class_methods[cl]

\* the class objects nested in cl (the list child_classes), in the order
\* they were built in: a source unit lists the nested classes of a
\* top-level class right after it
child_classes(cl) ==
    IF project[cl[1]].classes[cl[2]].nested THEN <<>>
    ELSE SelectSeq([d \in 1 .. Len(project[cl[1]].classes) |-> <<cl[1], d>>],
                   LAMBDA x : /\ x[2] > cl[2]
                              /\ \A k \in cl[2] + 1 .. x[2] :
                                    project[cl[1]].classes[k].nested)

\* child_classes.values(): child_classes read as a mapping from class id to
\* class object, in insertion order
child_classes_values(cl) == child_classes(cl)

\* Method.body: the text of the body node, empty for a method without body
body(m) ==
    IF Decl(m).body_node
    THEN <<"{", " ", Decl(m).class_name, ".", Decl(m).identifier, " ", "}">>
    ELSE <<>>

\* the text of a method declaration inside the body of its class
MethodText(m) ==
    <<Decl(m).identifier, "(">> \o Decl(m).parameters \o <<")">>
    \o (IF Decl(m).body_node THEN <<" ">> \o body(m) ELSE <<";">>)

\* the text of the method declarations of class c of file f, in body order
MethodsText(f, c) ==
    Flatten([i \in 1 .. Len(ClassMethods(f, c)) |->
               <<" ">> \o MethodText(ClassMethods(f, c)[i])])

\* BaseClass.body: the text of the class_body node, the declarations of the
\* fields, of the methods and of the nested classes included
class_body(cl) ==
    LET nested == child_classes(cl)
    IN  <<"{">> \o FieldsText(cl[1], cl[2]) \o MethodsText(cl[1], cl[2])
        \o Flatten([k \in 1 .. Len(nested) |->
                      <<" ", "class", " ", class_identifier(nested[k]), " ", "{">>
                      \o FieldsText(cl[1], nested[k][2])
                      \o MethodsText(cl[1], nested[k][2]) \o <<" ", "}">>])
        \o <<" ", "}">>

Whitespace == {" ", "\n"}

\* compute_hash: the body without its whitespace, hashed.  The hash is kept
\* as the text it was taken of (two texts have one hash iff they are equal)
compute_hash(text) == SelectSeq(text, LAMBDA t : t \notin Whitespace)

body_hash(m) == compute_hash(body(m))

----------------------------------------------------------------------------
(* MemberRegistry                                                          *)

EmptyMap == [k \in {} |-> <<>>]

Put(map, k, v) == [x \in DOMAIN map \cup {k} |-> IF x = k THEN v ELSE map[x]]

\* value of map[k] for a defaultdict(list)
Subscript(map, k) == IF k \in DOMAIN map THEN map[k] ELSE <<>>

\* the defaultdict after map[k] was evaluated: a missing key is inserted
Touched(map, k) == IF k \in DOMAIN map THEN map ELSE Put(map, k, <<>>)

Registry(u, s, n) == [map_umid |-> u, map_scoped |-> s, map_short |-> n]

\* MemberRegistry.methods, as the resolver names the index of the methods by
\* "Class.method"
MemberRegistry_methods(reg) == reg.map_scoped

\* MemberRegistry.methods_by_name, as the resolver names the index of the
\* methods by "method"
MemberRegistry_methods_by_name(reg) == reg.map_short

add_method(reg, m) ==
    Registry(Put(reg.map_umid, umid(m), m),
             Put(reg.map_scoped, scoped_identifier(m),
                 Append(Subscript(reg.map_scoped, scoped_identifier(m)), m)),
             Put(reg.map_short, identifier(m),
                 Append(Subscript(reg.map_short, identifier(m)), m)))

RECURSIVE RegisterAll(_, _)
RegisterAll(reg, ms) ==
    IF ms = <<>> THEN reg
    ELSE RegisterAll(add_method(reg, Head(ms)), Tail(ms))

----------------------------------------------------------------------------
Init ==
    /\ project \in Projects
    /\ pending = FileIds
    /\ files = <<>>
    /\ rpos = 0
    /\ map_umid = EmptyMap
    /\ map_scoped = EmptyMap
    /\ map_short = EmptyMap
    /\ dependencies = EmptyMap
    /\ unresolved_dependencies = EmptyMap
    /\ class_methods = EmptyMap
    /\ description = EmptyMap
    /\ confidence = EmptyMap
    /\ method_cache = EmptyMap
    /\ cache_file = EmptyMap
    /\ stage = "parse"
    /\ semaphore = [value |-> semaphore_value, waiters |-> <<>>, woken |-> {},
                    slots |-> semaphore_value]
    /\ task = EmptyMap

\* one iteration of the traversal loop of BaseParser.parse
BuildFile(f) ==
    /\ stage = "parse"
    /\ f \in pending
    /\ pending' = pending \ {f}
    /\ IF project[f].suffix = ".java" /\ Raises(f) /= 0
       THEN LET reg == RegisterAll(Registry(map_umid, map_scoped, map_short),
                                   MethodsBefore(f))
            IN  /\ stage' = "aborted"
                /\ map_umid' = reg.map_umid
                /\ map_scoped' = reg.map_scoped
                /\ map_short' = reg.map_short
                /\ dependencies' =
                     [m \in DOMAIN dependencies \cup Range(MethodsBefore(f)) |->
                        IF m \in DOMAIN dependencies THEN dependencies[m]
                        ELSE <<>>]
                /\ UNCHANGED <<files, class_methods>>
       ELSE IF project[f].suffix = ".java"
       THEN LET reg == RegisterAll(Registry(map_umid, map_scoped, map_short),
                                   FileMethods(f))
            IN  /\ files' = Append(files, f)
                /\ class_methods' =
                     [cl \in DOMAIN class_methods \cup FileClasses(f) |->
                        IF cl \in FileClasses(f)
                        THEN ClassMethods(cl[1], cl[2])
                        ELSE class_methods[cl]]
                /\ map_umid' = reg.map_umid
                /\ map_scoped' = reg.map_scoped
                /\ map_short' = reg.map_short
                /\ dependencies' =
                     [m \in DOMAIN dependencies \cup Range(FileMethods(f)) |->
                        IF m \in DOMAIN dependencies THEN dependencies[m]
                        ELSE <<>>]
                /\ stage' = stage
       ELSE UNCHANGED <<files, class_methods, map_umid, map_scoped, map_short,
                        dependencies, stage>>
    /\ UNCHANGED <<project, rpos, unresolved_dependencies, description,
                   confidence, method_cache, cache_file, semaphore, task>>

----------------------------------------------------------------------------
(* Resolution pass                                                         *)

\* BaseClass.get_methods: the methods dict (identifier -> list) flattened,
\* so the methods come grouped by identifier, in order of first appearance
RECURSIVE get_methods(_)
get_methods(ms) ==
    IF ms = <<>> THEN <<>>
    ELSE SelectSeq(ms, LAMBDA x : identifier(x) = identifier(Head(ms)))
         \o get_methods(SelectSeq(Tail(ms),
                                  LAMBDA x : identifier(x) /= identifier(Head(ms))))

\* JavaFile.classes: the class declarations at the top level of the file
TopClasses(f) ==
    SelectSeq([c \in 1 .. Len(project[f].classes) |-> c],
              LAMBDA c : ~project[f].classes[c].nested)

\* the methods JavaFile.resolve_dependencies goes through, in order
FileResolveList(f) ==
    Flatten([k \in 1 .. Len(TopClasses(f)) |->
               get_methods(ClassMethods(f, TopClasses(f)[k]))])

\* the methods the second loop of BaseParser.parse goes through, in order
ResolveList == Flatten([k \in 1 .. Len(files) |-> FileResolveList(files[k])])

\* resolution entered as soon as one file is built (no barrier)
BuildLoopDone_perfile == files /= <<>>

\* the first loop of BaseParser.parse has visited every file
BuildLoopDone == pending = {}

\* the import list a method is resolved with: BaseClass.resolve_dependencies
\* calls method.resolve_dependencies() with no argument, so the parameter
\* keeps its default, the empty list
ResolveImports(m) == <<>>

\* the names captured by the dependency query in the body of m
dependency_names(m) == {c.name : c \in Decl(m).calls}

\* one element appended to self.dependencies: the raw name it answers, the
\* tier that appended it and the registry value appended (targets)
Entry(n, t, ms) == [name |-> n, tier |-> t, targets |-> ms]

\* "then imports": every import whose "<import>.<name>" is a registry key
\* appends that entry; the continue statement continues the import loop
RECURSIVE ImportTier(_, _, _)
ImportTier(reg, n, imports) ==
    IF imports = <<>> THEN <<>>
    ELSE (IF <<Head(imports), n>> \in DOMAIN MemberRegistry_methods(reg)
          THEN << Entry(n, "import",
                        MemberRegistry_methods(reg)[<<Head(imports), n>>]) >>
          ELSE <<>>)
         \o ImportTier(reg, n, Tail(imports))

\* the global tier settling for the first registered method of that name
GlobalTier_first(reg, n) ==
    LET found == Subscript(MemberRegistry_methods_by_name(reg), n)
    IN  IF Len(found) >= 1
        THEN << Entry(n, "global", << found[1] >>) >>
        ELSE <<>>

\* "if there is only one method called [name]" and the final extend
GlobalTier(reg, n) ==
    LET found == Subscript(MemberRegistry_methods_by_name(reg), n)
    IN  IF Len(found) = 1
        THEN << Entry(n, "global", << found[1] >>) >>
        ELSE [i \in 1 .. Len(found) |-> Entry(n, "global", << found[i] >>)]

\* one iteration of the loop over dependency_names
ResolveName(reg, cls, n, imports) ==
    IF <<cls, n>> \in DOMAIN MemberRegistry_methods(reg)
    THEN [entries |-> << Entry(n, "local",
                               MemberRegistry_methods(reg)[<<cls, n>>]) >>,
          reg |-> reg]
    ELSE [entries |-> ImportTier(reg, n, imports) \o GlobalTier(reg, n),
          reg |-> Registry(reg.map_umid, reg.map_scoped,
                           Touched(MemberRegistry_methods_by_name(reg), n))]

\* the loop over dependency_names leaving at the first local hit (break for
\* continue)
RECURSIVE ResolveNames_break(_, _, _, _)
ResolveNames_break(reg, cls, names, imports) ==
    IF names = <<>> THEN [entries |-> <<>>, reg |-> reg]
    ELSE LET one == ResolveName(reg, cls, Head(names), imports)
             rest == IF <<cls, Head(names)>>
                           \in DOMAIN MemberRegistry_methods(reg)
                     THEN [entries |-> <<>>, reg |-> one.reg]
                     ELSE ResolveNames_break(one.reg, cls, Tail(names), imports)
         IN  [entries |-> one.entries \o rest.entries, reg |-> rest.reg]

\* the loop over dependency_names, taken in the order names
RECURSIVE ResolveNames(_, _, _, _)
ResolveNames(reg, cls, names, imports) ==
    IF names = <<>> THEN [entries |-> <<>>, reg |-> reg]
    ELSE LET one == ResolveName(reg, cls, Head(names), imports)
             rest == ResolveNames(one.reg, cls, Tail(names), imports)
         IN  [entries |-> one.entries \o rest.entries, reg |-> rest.reg]

\* the orders in which a set can be iterated
Orders(S) == {s \in [1 .. Cardinality(S) -> S] : Range(s) = S}

\* JavaMethod.resolve_dependencies for the next method of the pass
ResolveMethod ==
    /\ stage = "parse"
    /\ BuildLoopDone
    /\ rpos < Len(ResolveList)
    /\ rpos' = rpos + 1
    /\ LET m == ResolveList[rpos + 1]
       IN  IF ~Decl(m).body_node \/ dependency_names(m) = {}
           THEN UNCHANGED <<map_umid, map_scoped, map_short, dependencies>>
           ELSE \E names \in Orders(dependency_names(m)) :
                  LET r == ResolveNames(Registry(map_umid, map_scoped, map_short),
                                        Decl(m).class_name, names,
                                        ResolveImports(m))
                  IN  /\ dependencies' =
                           [dependencies EXCEPT ![m] = @ \o r.entries]
                      /\ map_umid' = r.reg.map_umid
                      /\ map_scoped' = r.reg.map_scoped
                      /\ map_short' = r.reg.map_short
    /\ UNCHANGED <<project, pending, files, unresolved_dependencies,
                   class_methods, description, confidence, genvars>>

\* BaseParser.parse has returned
ParseDone ==
    BuildLoopDone /\ rpos = Len(ResolveList) /\ stage /= "aborted"

Next ==
    \/ \E f \in FileIds : BuildFile(f)
    \/ ResolveMethod

Spec == Init /\ [][Next]_vars

\* the parse of a directory that holds files with malformed members
NodeInit ==
    /\ project \in NodeProjects
    /\ pending = FileIds
    /\ files = <<>>
    /\ rpos = 0
    /\ map_umid = EmptyMap
    /\ map_scoped = EmptyMap
    /\ map_short = EmptyMap
    /\ dependencies = EmptyMap
    /\ unresolved_dependencies = EmptyMap
    /\ class_methods = EmptyMap
    /\ description = EmptyMap
    /\ confidence = EmptyMap
    /\ method_cache = EmptyMap
    /\ cache_file = EmptyMap
    /\ stage = "parse"
    /\ semaphore = [value |-> semaphore_value, waiters |-> <<>>, woken |-> {},
                    slots |-> semaphore_value]
    /\ task = EmptyMap

NodeSpec == NodeInit /\ [][Next]_vars

----------------------------------------------------------------------------
(* The state BaseParser.parse leaves behind, for the run after the parse   *)

\* the projects the run after the parse is followed on: classes O, N and
\* N.I (overloads, a nested class), or one class found in two files
GenProjects ==
    {p \in Projects :
        SelectSeq(p, LAMBDA x : x.suffix = ".java")
            \in {<<FileO, FileN>>, <<FileC, FileC>>}}

\* the second loop of BaseParser.parse run over the methods ms: every state
\* it can end in, the raw names of a method taken in any order
RECURSIVE ResolveAll(_, _)
ResolveAll(st, ms) ==
    IF ms = <<>> THEN {st}
    ELSE LET m == Head(ms)
         IN  IF ~Decl(m).body_node \/ dependency_names(m) = {}
             THEN ResolveAll(st, Tail(ms))
             ELSE UNION
                    {LET r == ResolveNames(st.reg, Decl(m).class_name, names,
                                           ResolveImports(m))
                     IN  ResolveAll([reg |-> r.reg,
                                     deps |-> [st.deps EXCEPT
                                                 ![m] = @ \o r.entries]],
                                    Tail(ms)) :
                       names \in Orders(dependency_names(m))}

\* BaseParser.parse has returned: every file visited, in any order, none of
\* them with a class node that raises, and every method of the pass resolved
ParseReturned ==
    /\ pending = {}
    /\ files \in Orders({f \in FileIds : project[f].suffix = ".java"})
    /\ \A f \in Range(files) : Raises(f) = 0
    /\ rpos = Len(ResolveList)
    /\ LET built == Flatten([k \in 1 .. Len(files) |-> FileMethods(files[k])])
       IN  \E st \in ResolveAll(
                        [reg |-> RegisterAll(Registry(EmptyMap, EmptyMap, EmptyMap),
                                             built),
                         deps |-> [m \in Range(built) |-> <<>>]],
                        ResolveList) :
             /\ map_umid = st.reg.map_umid
             /\ map_scoped = st.reg.map_scoped
             /\ map_short = st.reg.map_short
             /\ dependencies = st.deps
    /\ unresolved_dependencies = EmptyMap
    /\ class_methods =
         [cl \in UNION {FileClasses(f) : f \in Range(files)} |->
            ClassMethods(cl[1], cl[2])]
    /\ description = EmptyMap
    /\ confidence = EmptyMap

----------------------------------------------------------------------------
(* Method cache                                                            *)

\* the methods by_umid holds
RegisteredMethods == {map_umid[u] : u \in DOMAIN map_umid}

\* the body a method had in the previous run
PreviousBody(m, kind) ==
    CASE kind = "respaced" ->
           <<"\n">> \o SelectSeq(body(m), LAMBDA t : t /= " ") \o <<" ", " ">>
      [] kind = "edited" -> body(m) \o <<"x">>
      [] OTHER -> body(m)

Doc(u) == <<"doc", u[1], u[2]>> \o u[3]

\* a method the previous run had and this one has not
GoneUmid == <<"Z", "gone", <<>>>>

\* the cache the previous run exported: the methods of S differ from this
\* run in the way kind says (body laid out differently, body edited, method
\* not there yet, description not generated), the others are as they are now
PreviousRun(S, kind) ==
    [u \in ({umid(m) : m \in RegisteredMethods}
              \ (IF kind = "absent" THEN {umid(m) : m \in S} ELSE {}))
            \cup {GoneUmid} |->
        IF u = GoneUmid
        THEN [hash |-> <<"{", "}">>, description |-> Doc(u)]
        ELSE LET m == map_umid[u]
             IN  [hash |-> compute_hash(
                             PreviousBody(m, IF m \in S THEN kind ELSE "same")),
                  description |->
                      IF m \in S /\ kind = "undescribed" THEN <<>> ELSE Doc(u)]]

\* the first method of every class, as far as by_umid holds it
FirstMethods ==
    {m \in RegisteredMethods : m[3] = 1}

\* the second method of every class, the only method of a class that has
\* one, as far as by_umid holds it
SecondMethods ==
    {m \in RegisteredMethods :
        m[3] = IF Len(ClassMethods(m[1], m[2])) = 1 THEN 1 ELSE 2}

CacheInputs ==
    {EmptyMap} \cup
    {PreviousRun(S, kind) :
        S \in {{}} \cup {{m} : m \in RegisteredMethods}
               \cup {FirstMethods, SecondMethods},
        kind \in {"respaced", "edited", "absent", "undescribed"}}

\* line 37: the cache has an entry for the method and its hash is the
\* method's
cache_hit(cache, m) ==
    /\ umid(m) \in DOMAIN cache
    /\ cache[umid(m)].hash = body_hash(m)

\* MemberRegistry.load_cache: the descriptions after the loop
load_cache(cache) ==
    [e \in DOMAIN description \cup RegisteredMethods |->
        IF e \in RegisteredMethods
        THEN (IF cache_hit(cache, e) THEN cache[umid(e)].description ELSE <<>>)
        ELSE description[e]]

\* MemberRegistry.get_method_cache
get_method_cache ==
    [u \in {umid(m) : m \in RegisteredMethods} |->
        LET m == CHOOSE x \in RegisteredMethods : umid(x) = u
        IN  [hash |-> body_hash(m), description |-> description[m]]]

LoadCache ==
    /\ stage = "parse"
    /\ ParseDone
    /\ method_cache' = cache_file
    /\ description' = load_cache(cache_file)
    /\ stage' = "loaded"
    /\ UNCHANGED <<parsevars, confidence, cache_file, semaphore, task>>

----------------------------------------------------------------------------
(* GeminiClient.generate_description                                       *)

\* Method.signature, as far as it tells the methods of a class apart
signature(m) == <<Decl(m).class_name, Decl(m).identifier>> \o Decl(m).parameters

\* line 45: the index of every method of the class, counted from 0
method_lookup(cl) == [i \in 0 .. Len(methods(cl)) - 1 |-> methods(cl)[i + 1]]

\* any(m.description for m in ms): the descriptions are read in order up to
\* the first that is not empty; reading the description of a method object
\* that has none raises AttributeError
RECURSIVE any_description(_)
any_description(ms) ==
    IF ms = <<>> THEN "False"
    ELSE IF Head(ms) \notin DOMAIN description THEN "AttributeError"
    ELSE IF description[Head(ms)] /= <<>> THEN "True"
    ELSE any_description(Tail(ms))

\* line 47
has_cached_methods(cl) == any_description(methods(cl))

\* the description of class object c, empty until one is generated
class_description(c) == IF c \in DOMAIN description THEN description[c] ELSE <<>>

\* lines 47-76: the payload, cold start or warm start; no payload when
\* line 47, or a read of m.description in lines 64-71, raises
input_data(cl, imports) ==
    LET lookup == method_lookup(cl)
    IN  IF has_cached_methods(cl) = "AttributeError"
           \/ (has_cached_methods(cl) = "True"
               /\ \E i \in DOMAIN lookup : lookup[i] \notin DOMAIN description)
        THEN [start |-> "AttributeError"]
        ELSE IF has_cached_methods(cl) = "False"
        THEN [start |-> "cold",
              code |-> class_body(cl),
              ucid |-> ucid(cl),
              imports |-> imports,
              method_ids_to_signatures |->
                  [i \in DOMAIN lookup |-> signature(lookup[i])],
              child_classes |->
                  [k \in 1 .. Len(child_classes_values(cl)) |->
                     class_signature(child_classes_values(cl)[k])]]
        ELSE [start |-> "warm",
              ucid |-> ucid(cl),
              fields |->
                  [k \in 1 .. Len(fields_values(cl)) |->
                     field_signature(fields_values(cl)[k])],
              cached_methods |->
                  [i \in {j \in DOMAIN lookup : description[lookup[j]] /= <<>>}
                     |-> description[lookup[i]]],
              methods_to_generate |->
                  [i \in {j \in DOMAIN lookup : description[lookup[j]] = <<>>}
                     |-> body(lookup[i])],
              imports |-> imports,
              child_classes |->
                  [sg \in {class_signature(d) :
                             d \in Range(child_classes_values(cl))} |->
                     class_description(
                        child_classes_values(cl)[
                           CHOOSE k \in 1 .. Len(child_classes_values(cl)) :
                              /\ class_signature(child_classes_values(cl)[k]) = sg
                              /\ \A j \in k + 1 .. Len(child_classes_values(cl)) :
                                    class_signature(child_classes_values(cl)[j])
                                       /= sg])]]

RECURSIVE Power2(_)
Power2(k) == IF k = 0 THEN 1 ELSE 2 * Power2(k - 1)

\* the same delay before every retry
sleep_time_constant(attempt) == base_delay

\* line 116
sleep_time(attempt) == base_delay * Power2(attempt)

\* the str `in` test: p occurs in text as a run of consecutive tokens.  An
\* error text is kept digit by digit, so that a code can occur inside a
\* longer number
Infix(p, text) ==
    \E i \in 0 .. Len(text) - Len(p) : SubSeq(text, i + 1, i + Len(p)) = p

\* the failure taken for a transient one by the status it reports
is_transient_bystatus(error_str) ==
    Len(error_str) >= 3
    /\ SubSeq(error_str, 1, 3) \in {<<"5", "0", "3">>, <<"4", "2", "9">>}

\* line 114: "503" in error_str or "429" in error_str
is_transient(error_str) ==
    Infix(<<"5", "0", "3">>, error_str) \/ Infix(<<"4", "2", "9">>, error_str)

\* lines 114-115: the failed attempt is followed by a sleep and a further
\* attempt
retries(error_str, attempt) ==
    is_transient(error_str) /\ attempt < max_retries - 1

\* the marker given the shape of a result
error_marker_as_result(cl, error_str) ==
    [ucid |-> ucid(cl), error |-> error_str, status |-> "error",
     description |-> error_str, confidence |-> 0, methods |-> {}]

\* lines 121-125
error_marker(cl, error_str) ==
    [ucid |-> ucid(cl), error |-> error_str, status |-> "error"]

\* lines 102-110: the parsed response, the umid added to every entry whose
\* method_id is an index of the call's method_lookup
remapped(parsed_data, lookup) ==
    [parsed_data EXCEPT !.methods =
        {IF e.method_id \in DOMAIN lookup
         THEN [method_id |-> e.method_id, description |-> e.description,
               confidence |-> e.confidence, umid |-> umid(lookup[e.method_id])]
         ELSE e : e \in parsed_data.methods}]

\* asyncio.Semaphore (the code needs Python 3.12 or later and names no
\* version; where 3.12 and 3.13 differ both outcomes are kept) as
\* self.semaphore uses it: _value, the queue _waiters
\* and, of the queued tasks, those whose future is done (woken); slots is
\* the value the semaphore was created with, which no step reads
Semaphore(v, w, k, n) == [value |-> v, waiters |-> w, woken |-> k, slots |-> n]

\* asyncio.Semaphore(n)
NewSemaphore(n) == Semaphore(n, <<>>, {}, n)

\* Semaphore.locked
locked(sem) == sem.value = 0 \/ sem.waiters /= <<>>

\* Semaphore._wake_up_next: the first queued task that is not woken takes a
\* unit of _value and is woken
wake_up_next(sem) ==
    LET asleep == SelectSeq(sem.waiters, LAMBDA w : w \notin sem.woken)
    IN  IF asleep = <<>> THEN sem
        ELSE Semaphore(sem.value - 1, sem.waiters,
                       sem.woken \cup {Head(asleep)}, sem.slots)

\* the gate entered without waiting for a free slot
acquire_ungated(sem, cl) == Semaphore(sem.value - 1, sem.waiters, sem.woken, sem.slots)

\* async with self.semaphore, entering (Semaphore.acquire up to its await):
\* a unit is taken at once unless the semaphore is locked, otherwise the
\* task queues
acquire(sem, cl) ==
    IF ~locked(sem)
    THEN Semaphore(sem.value - 1, sem.waiters, sem.woken, sem.slots)
    ELSE Semaphore(sem.value, Append(sem.waiters, cl), sem.woken, sem.slots)

\* Python 3.12: if self._value > 0: self._wake_up_next()
wake_up_if_free(sem) ==
    IF sem.value > 0 THEN wake_up_next(sem) ELSE sem

\* Python 3.13: while self._value > 0: if not self._wake_up_next(): break
RECURSIVE wake_up_allowed(_)
wake_up_allowed(sem) ==
    IF sem.value > 0 /\ wake_up_next(sem) /= sem
    THEN wake_up_allowed(wake_up_next(sem))
    ELSE sem

\* Semaphore.acquire from its await on: the woken task leaves the queue and,
\* if units are free, wakes the next task queued behind it (Python 3.12) or
\* as many of them as there are free units (Python 3.13).  The outcomes are
\* those of the interpreters the code runs on; they are the same unless two
\* units are free with two tasks asleep in the queue
resumed(sem, cl) ==
    LET left == Semaphore(sem.value,
                          SelectSeq(sem.waiters, LAMBDA w : w /= cl),
                          sem.woken \ {cl}, sem.slots)
    IN  {wake_up_if_free(left), wake_up_allowed(left)}

\* the slot given back twice when the gate is left
release_twice(sem) ==
    wake_up_next(Semaphore(sem.value + 2, sem.waiters, sem.woken, sem.slots))

\* async with self.semaphore, leaving (Semaphore.release)
release(sem) ==
    wake_up_next(Semaphore(sem.value + 1, sem.waiters, sem.woken, sem.slots))

----------------------------------------------------------------------------
(* The generator (client.aio.models.generate_content), seen from the call  *)

\* the failures of the generator: what kind of failure it is and str(e).
\* A timeout has no text; the message of the invalid request quotes a
\* number, 15030, that has the digits 503 in it
Failures ==
    {[class |-> "unavailable",
      text |-> <<"5", "0", "3", " ", "UNAVAILABLE">>],
     [class |-> "rate_limit",
      text |-> <<"4", "2", "9", " ", "RESOURCE_EXHAUSTED">>],
     [class |-> "unauthenticated",
      text |-> <<"4", "0", "1", " ", "UNAUTHENTICATED">>],
     [class |-> "timeout", text |-> <<>>],
     [class |-> "invalid_argument",
      text |-> <<"4", "0", "0", " ", "INVALID_ARGUMENT", " ",
                 "1", "5", "0", "3", "0">>]}

\* str(e) of the errors the generator raises
ErrorTexts == {f.text : f \in Failures}

\* str(e) of the AttributeError line 105 raises when response.parsed is None
NoneTypeError == <<"NoneType", "object", "has", "no", "attribute", "get">>

\* str(e) of the AttributeError the read of m.description raises for a
\* method object that has no description
NoDescriptionError ==
    <<"JavaMethod", "object", "has", "no", "attribute", "description">>

\* the indices the payload asks descriptions for
Requested(input) ==
    IF input.start = "cold" THEN DOMAIN input.method_ids_to_signatures
    ELSE DOMAIN input.methods_to_generate

\* every index the payload names: the indices asked for and, in a warm
\* start, those of the cached methods
Indexed(input) ==
    IF input.start = "cold" THEN DOMAIN input.method_ids_to_signatures
    ELSE DOMAIN input.methods_to_generate \cup DOMAIN input.cached_methods

\* an index the payload does not name
Unnamed(input) == Cardinality(Indexed(input))

\* what the payload holds under index i: a signature, a body or a cached
\* description; nothing under an index it does not name
Told(input, i) ==
    IF input.start = "cold"
    THEN (IF i \in DOMAIN input.method_ids_to_signatures
          THEN input.method_ids_to_signatures[i] ELSE <<>>)
    ELSE IF i \in DOMAIN input.methods_to_generate
         THEN input.methods_to_generate[i]
         ELSE IF i \in DOMAIN input.cached_methods
              THEN input.cached_methods[i] ELSE <<>>

\* the texts mapping f holds under the keys S, one after the other
RECURSIVE Said(_, _)
Said(f, S) ==
    IF S = {} THEN <<>>
    ELSE LET k == CHOOSE x \in S : TRUE
         IN  <<"|">> \o f[k] \o Said(f, S \ {k})

\* what a warm-start payload gives as context: the cached descriptions and
\* the descriptions of the nested classes
Context(input) ==
    IF input.start = "cold" THEN <<>>
    ELSE Said(input.cached_methods, DOMAIN input.cached_methods)
         \o <<"||">> \o Said(input.child_classes, DOMAIN input.child_classes)

\* a response that fits the schema, with entries for the indices ids: what
\* the generator writes is made from everything the payload holds, the
\* entry of index i from what the payload holds under i and from the context
Generated(input, ids) ==
    [ucid |-> input.ucid,
     description |-> <<"gen", input.ucid>> \o Context(input),
     confidence |-> 90,
     methods |->
        {[method_id |-> i,
          description |-> <<"gen">> \o Told(input, i) \o Context(input),
          confidence |-> 90] : i \in ids}]

\* the responses of the generator: the instruction is to answer the indices
\* asked for, and the schema lets it answer any: those asked for, or every
\* index of the payload and one the payload does not name
Responses(input) ==
    {Generated(input, ids) :
        ids \in {Requested(input), Indexed(input) \cup {Unnamed(input)}}}

\* what one attempt can end with
Outcomes(input) ==
    {[kind |-> "response", parsed |-> r, text |-> <<>>] : r \in Responses(input)}
    \cup
    {[kind |-> "unparsed", parsed |-> [methods |-> {}], text |-> NoneTypeError]}
    \cup {[kind |-> "exception", parsed |-> [methods |-> {}], text |-> t] :
            t \in ErrorTexts}

----------------------------------------------------------------------------
(* The generation pass: one task per class that has a method without       *)
(* description; the task calls generate_description and merges the result   *)
(* back into the class and its methods                                     *)

AllClasses == UNION {FileClasses(files[k]) : k \in 1 .. Len(files)}

\* the classes that have a method without description
DirtyClasses ==
    {cl \in AllClasses :
        \E m \in Range(methods(cl)) :
            m \notin DOMAIN description \/ description[m] = <<>>}

\* a task and the locals of its call: attempt, method_lookup, input_data,
\* error_str and the delay it sleeps for; result is what the call returned
NewTask ==
    [pc |-> "scheduled", attempt |-> 0, method_lookup |-> <<>>,
     input_data |-> [start |-> "none"], error_str |-> <<>>, sleep |-> 0,
     result |-> [status |-> "none"]]

IsError(r) == "status" \in DOMAIN r /\ r.status = "error"

IsParsed(r) == "methods" \in DOMAIN r

\* merge-back of a parsed result: the class and, by the index of the call's
\* method_lookup, the methods the result has entries for
MergeBack(field, cl, lookup, result, annotation) ==
    [e \in DOMAIN annotation \cup {cl}
            \cup {lookup[r.method_id] :
                    r \in {x \in result.methods : x.method_id \in DOMAIN lookup}}
       |->
        IF e = cl THEN result[field]
        ELSE IF \E r \in result.methods :
                   r.method_id \in DOMAIN lookup /\ lookup[r.method_id] = e
             THEN (CHOOSE r \in result.methods :
                     r.method_id \in DOMAIN lookup
                     /\ lookup[r.method_id] = e)[field]
             ELSE annotation[e]]

Schedule ==
    /\ stage = "loaded"
    /\ stage' = "generating"
    /\ task' = [cl \in DirtyClasses |-> NewTask]
    /\ UNCHANGED <<parsevars, description, confidence, method_cache,
                   cache_file, semaphore>>

\* the exception that leaves the call with no except clause around it
raised(error_str) == [status |-> "raised", error |-> error_str]

\* the task runs up to its first suspension: the payload is built (lines
\* 45-76, outside the try), then the gate is entered; an exception raised
\* while the payload is built ends the call before the gate
Start(cl) ==
    /\ stage = "generating"
    /\ cl \in DOMAIN task
    /\ task[cl].pc = "scheduled"
    /\ semaphore' =
         IF input_data(cl, project[cl[1]].imports).start = "AttributeError"
         THEN semaphore
         ELSE acquire(semaphore, cl)
    /\ task' = [task EXCEPT ![cl] =
                  IF input_data(cl, project[cl[1]].imports).start
                       = "AttributeError"
                  THEN [NewTask EXCEPT !.pc = "done",
                                       !.result = raised(NoDescriptionError)]
                  ELSE [@ EXCEPT !.pc = IF cl \in Range(semaphore'.waiters)
                                        THEN "waiting" ELSE "calling",
                                 !.method_lookup = method_lookup(cl),
                                 !.input_data =
                                     input_data(cl, project[cl[1]].imports)]]
    /\ UNCHANGED <<parsevars, description, confidence, method_cache,
                   cache_file, stage>>

\* a queued task that was woken runs again: it leaves the queue and issues
\* its first attempt.  The woken tasks run in the order they were woken in,
\* which is that of the queue
Admit(cl) ==
    /\ cl \in DOMAIN task
    /\ task[cl].pc = "waiting"
    /\ cl \in semaphore.woken
    /\ Head(semaphore.waiters) = cl
    /\ semaphore' \in resumed(semaphore, cl)
    /\ task' = [task EXCEPT ![cl].pc = "calling"]
    /\ UNCHANGED <<parsevars, description, confidence, method_cache,
                   cache_file, stage>>

\* a marker of its own for the retries that ran out
returned_exhausted(cl, o) ==
    IF o.kind = "response" THEN remapped(o.parsed, task[cl].method_lookup)
    ELSE IF is_transient(o.text)
         THEN [ucid |-> ucid(cl), error |-> o.text, status |-> "exhausted"]
         ELSE error_marker(cl, o.text)

\* the indices mapped back through the class's method collection as it is
\* when the response arrives
returned_rederived(cl, o) ==
    IF o.kind = "response" THEN remapped(o.parsed, method_lookup(cl))
    ELSE error_marker(cl, o.text)

\* what generate_description returns when the attempt that ended with
\* outcome o is its last
returned(cl, o) ==
    IF o.kind = "response" THEN remapped(o.parsed, task[cl].method_lookup)
    ELSE error_marker(cl, o.text)

\* the generator answers the attempt in flight: the call sleeps before a
\* further attempt, or it returns, the slot is released and the task merges
\* what was returned
Respond(cl) ==
    /\ cl \in DOMAIN task
    /\ task[cl].pc = "calling"
    /\ \E o \in Outcomes(task[cl].input_data) :
         IF o.kind /= "response" /\ retries(o.text, task[cl].attempt)
         THEN /\ task' = [task EXCEPT ![cl] =
                           [@ EXCEPT !.pc = "sleeping",
                                     !.error_str = o.text,
                                     !.sleep = sleep_time(task[cl].attempt)]]
              /\ UNCHANGED <<semaphore, description, confidence>>
         ELSE LET r == returned(cl, o)
              IN  /\ semaphore' = release(semaphore)
                  /\ task' = [task EXCEPT ![cl] =
                               [NewTask EXCEPT !.pc = "done", !.result = r]]
                  /\ IF IsParsed(r)
                     THEN /\ description' =
                               MergeBack("description", cl,
                                         task[cl].method_lookup, r, description)
                          /\ confidence' =
                               MergeBack("confidence", cl,
                                         task[cl].method_lookup, r, confidence)
                     ELSE UNCHANGED <<description, confidence>>
    /\ UNCHANGED <<parsevars, method_cache, cache_file, stage>>

\* the backoff sleep is over: the next attempt is issued
Wake(cl) ==
    /\ cl \in DOMAIN task
    /\ task[cl].pc = "sleeping"
    /\ task' = [task EXCEPT ![cl] =
                  [@ EXCEPT !.pc = "calling", !.attempt = @ + 1, !.sleep = 0]]
    /\ UNCHANGED <<parsevars, description, confidence, method_cache,
                   cache_file, stage, semaphore>>

\* every task is over: the cache is exported and persisted
ExportCache ==
    /\ stage = "generating"
    /\ \A cl \in DOMAIN task : task[cl].pc = "done"
    /\ cache_file' = get_method_cache
    /\ stage' = "exported"
    /\ UNCHANGED <<parsevars, description, confidence, method_cache,
                   semaphore, task>>

\* the cache files the runs at the small gate start with: none, or the
\* file of a run made before the second method of every class was edited
GateCaches == {EmptyMap, PreviousRun(SecondMethods, "edited")}

\* the runs after the parse: with the gate GeminiClient creates, on every
\* cache file; with the small gate, on the cache files GateCaches
GenInit ==
    /\ project \in GenProjects
    /\ ParseReturned
    /\ cache_file \in CacheInputs
    /\ method_cache = EmptyMap
    /\ stage = "parse"
    /\ semaphore \in {NewSemaphore(n) : n \in GateSlots}
    /\ semaphore.slots = SemaphoreSlots => cache_file \in GateCaches
    /\ task = EmptyMap

GenNext ==
    \/ LoadCache
    \/ Schedule
    \/ \E cl \in AllClasses : Start(cl)
    \/ \E cl \in AllClasses : Admit(cl)
    \/ \E cl \in AllClasses : Respond(cl)
    \/ \E cl \in AllClasses : Wake(cl)
    \/ ExportCache

GenSpec == GenInit /\ [][GenNext]_vars

\* the event loop runs every task that is ready, the woken waiters of the
\* gate included, and ends every sleep; the generator answers every attempt
GenFairness ==
    /\ WF_vars(LoadCache) /\ WF_vars(Schedule) /\ WF_vars(ExportCache)
    /\ WF_vars(\E cl \in AllClasses : Start(cl))
    /\ WF_vars(\E cl \in AllClasses : Admit(cl))
    /\ WF_vars(\E cl \in AllClasses : Respond(cl))
    /\ WF_vars(\E cl \in AllClasses : Wake(cl))

\* the runs followed to their end: no cache file, or the file of a run made
\* before the first method of every class was edited
FairGenInit ==
    /\ GenInit
    /\ cache_file \in {EmptyMap, PreviousRun(FirstMethods, "edited")}

FairGenSpec == FairGenInit /\ [][GenNext]_vars /\ GenFairness

\* the project of four classes (B, C, N and N.I), two more than the small
\* gate has slots
GateProjects ==
    {p \in Projects :
        SelectSeq(p, LAMBDA x : x.suffix = ".java") = <<FileB, FileC, FileN>>}

\* the run at the small gate: the four classes, built in the order the
\* directory lists their files in, no cache file, so that every class has a
\* task and two tasks can queue at the gate
GateInit ==
    /\ project \in GateProjects
    /\ files = SelectSeq([f \in FileIds |-> f],
                         LAMBDA f : project[f].suffix = ".java")
    /\ ParseReturned
    /\ cache_file = EmptyMap
    /\ method_cache = EmptyMap
    /\ stage = "parse"
    /\ semaphore = NewSemaphore(SemaphoreSlots)
    /\ task = EmptyMap

GateSpec == GateInit /\ [][GenNext]_vars

\* the collection a class was built with, all of it still there
Unchanged(cl) == class_methods[cl] = ClassMethods(cl[1], cl[2])

\* another task changes the method collection of a class while the call of
\* the class is suspended (at the gate, on the generator or in a backoff
\* sleep): the first method leaves the collection, so that every method
\* after it moves one place up
ChangeMethods(cl) ==
    /\ stage = "generating"
    /\ cl \in DOMAIN task
    /\ task[cl].pc \in {"waiting", "calling", "sleeping"}
    /\ Unchanged(cl)
    /\ Len(class_methods[cl]) > 1
    /\ class_methods' = [class_methods EXCEPT ![cl] = Tail(@)]
    /\ UNCHANGED <<project, pending, files, rpos, map_umid, map_scoped,
                   map_short, dependencies, unresolved_dependencies,
                   description, confidence, genvars>>

\* the runs in which the method collections change under the calls: classes
\* O, N and N.I, no cache file or the file of a run made before the second
\* method of every class was edited
ChangeInit ==
    /\ GenInit
    /\ SelectSeq(project, LAMBDA x : x.suffix = ".java") = <<FileO, FileN>>
    /\ \A i \in 1 .. Len(files) - 1 : files[i] < files[i + 1]
    /\ cache_file \in GateCaches

ChangeNext ==
    \/ GenNext
    \/ \E cl \in AllClasses : ChangeMethods(cl)

ChangeSpec == ChangeInit /\ [][ChangeNext]_vars

----------------------------------------------------------------------------
(* Vocabulary of the properties                                            *)

Built == DOMAIN dependencies

JavaFiles == {f \in FileIds : project[f].suffix = ".java"}

\* no two method objects of the project share a umid
DistinctUmids ==
    \A f, g \in JavaFiles :
        \A m1 \in Range(FileMethods(f)), m2 \in Range(FileMethods(g)) :
            m1 /= m2 => umid(m1) /= umid(m2)

\* every method object the project holds once all of it is built
AllMethods == UNION {Range(FileMethods(f)) : f \in JavaFiles}

\* the methods resolve_dependencies has been run on
Resolved == {ResolveList[i] : i \in 1 .. rpos}

\* the elements of m's dependencies list that answer raw name n
EntriesFor(m, n) == SelectSeq(dependencies[m], LAMBDA e : e.name = n)

\* the methods m's dependencies list refers to
DepSet(m) == UNION {Range(dependencies[m][i].targets) :
                      i \in 1 .. Len(dependencies[m])}

TargetsFor(m, n) == UNION {Range(EntriesFor(m, n)[i].targets) :
                             i \in 1 .. Len(EntriesFor(m, n))}

Position(f) == CHOOSE i \in 1 .. Len(files) : files[i] = f

----------------------------------------------------------------------------
\* C1: after any sequence of register calls the three indices agree: every
\* registered method is the by_umid value under its umid and is in the
\* by_scoped list of its scoped identifier and the by_short_name list of its
\* identifier, and every method in a by_scoped or by_short_name list is the
\* value of some by_umid entry.
C1_IndicesAgree ==
    /\ \A m \in Built :
         /\ umid(m) \in DOMAIN map_umid /\ map_umid[umid(m)] = m
         /\ m \in Range(Subscript(map_scoped, scoped_identifier(m)))
         /\ m \in Range(Subscript(map_short, identifier(m)))
    /\ \A k \in DOMAIN map_scoped : \A m \in Range(map_scoped[k]) :
         \E u \in DOMAIN map_umid : map_umid[u] = m
    /\ \A k \in DOMAIN map_short : \A m \in Range(map_short[k]) :
         \E u \in DOMAIN map_umid : map_umid[u] = m

\* C2: the umid values of the methods built in one run are pairwise
\* distinct, and by_umid holds exactly one entry per built method.
C2_UmidUnique ==
    /\ \A m1, m2 \in Built : m1 /= m2 => umid(m1) /= umid(m2)
    /\ Cardinality(DOMAIN map_umid) = Cardinality(Built)

\* C3: a registry lookup is a pure read: the steps of the resolution pass,
\* which only look the registry up, leave the three index maps as they were.
C3_LookupsPure ==
    [][rpos' /= rpos =>
         /\ map_umid' = map_umid
         /\ map_scoped' = map_scoped
         /\ map_short' = map_short]_vars

\* every file of the project is built and every one of its methods is
\* registered in the three indices
AllBuiltAndRegistered ==
    /\ pending = {}
    /\ JavaFiles = Range(files)
    /\ \A m \in AllMethods :
         /\ m \in Built
         /\ umid(m) \in DOMAIN map_umid
         /\ m \in Range(Subscript(map_scoped, scoped_identifier(m)))
         /\ m \in Range(Subscript(map_short, identifier(m)))

\* C4: build and resolution form a strict barrier: no resolve_dependencies
\* step is taken before every file of the project is built and every one of
\* its methods registered.
C4_Barrier == [][rpos' /= rpos => AllBuiltAndRegistered]_vars

\* a method has been resolved in a project of at least two built files
C4_Witness == rpos > 0 /\ Len(files) >= 2

\* what the raw names of m refer to, read off the project's content alone:
\* the methods of m's own class with that name if there is one, else every
\* method of that name anywhere
ProjectTargets(m, n) ==
    LET own == {x \in AllMethods :
                  scoped_identifier(x) = <<Decl(m).class_name, n>>}
    IN  IF own /= {} THEN own
        ELSE {x \in AllMethods : identifier(x) = n}

ProjectDeps(m) ==
    IF Decl(m).body_node
    THEN UNION {ProjectTargets(m, n) : n \in dependency_names(m)}
    ELSE {}

\* C5: resolution does not depend on the order in which the files are built
\* and registered: in whatever order the traversal took them, every method
\* the pass resolves ends with the set of dependencies its raw names have in
\* the project as a whole, forward references included.
C5_OrderIndependent ==
    ParseDone => \A m \in Resolved : DepSet(m) = ProjectDeps(m)

\* the parse is over and a method holds a reference to a method of a file
\* that was built after its own
C5_Witness ==
    /\ ParseDone
    /\ \E m \in Resolved : \E t \in DepSet(m) :
         Position(t[1]) > Position(m[1])

\* C6: no self-dependency: a method is never an element of its own resolved
\* dependencies, recursive calls included (stated for the projects whose
\* umids are pairwise distinct).
C6_NoSelfDependency == DistinctUmids => \A m \in Built : m \notin DepSet(m)

\* the candidates of the tier that answers raw name n for method m
AnsweringCandidates(m, n) ==
    IF <<Decl(m).class_name, n>> \in DOMAIN map_scoped
    THEN Range(map_scoped[<<Decl(m).class_name, n>>])
    ELSE Range(Subscript(map_short, n))

\* C7: arity filter: when the answering tier returns more than one
\* candidate, only the candidates whose arity equals the argument count of
\* the call site are added to the resolved dependencies (stated for the
\* projects whose umids are pairwise distinct).
C7_ArityFilter ==
    DistinctUmids => \A m \in Resolved : \A c \in Decl(m).calls :
        Cardinality(AnsweringCandidates(m, c.name)) > 1 =>
            \A t \in TargetsFor(m, c.name) : arity(t) = c.argc

\* the imports of m's file under which raw name n is defined
ImportsDefining(m, n) ==
    {i \in Range(project[m[1]].imports) : <<i, n>> \in DOMAIN map_scoped}

\* C8: import tier: a name that is not defined in the method's own class but
\* is defined under an import of the method's file resolves to exactly one
\* reference, to the imported method, through the import tier (stated for
\* the projects whose umids are pairwise distinct).
C8_ImportTier ==
    DistinctUmids => \A m \in Resolved : \A n \in dependency_names(m) :
        (/\ <<Decl(m).class_name, n>> \notin DOMAIN map_scoped
         /\ ImportsDefining(m, n) /= {}) =>
            /\ Len(EntriesFor(m, n)) = 1
            /\ EntriesFor(m, n)[1].tier = "import"
            /\ \E i \in ImportsDefining(m, n) :
                 EntriesFor(m, n)[1].targets = map_scoped[<<i, n>>]

\* C9: a raw name for which no tier yields a candidate is recorded in the
\* method's unresolved_dependencies and adds nothing to its dependencies
\* (stated for the projects whose umids are pairwise distinct).
C9_UnresolvedRecorded ==
    DistinctUmids => \A m \in Resolved : \A n \in dependency_names(m) :
        (/\ AnsweringCandidates(m, n) = {}
         /\ ImportsDefining(m, n) = {}) =>
            /\ n \in Range(Subscript(unresolved_dependencies, m))
            /\ EntriesFor(m, n) = <<>>

\* C10: resolution determinism: what a resolved method holds for a raw name
\* (the tier and the candidates) is what one resolution of that name against
\* the registry gives, whatever the order in which the raw names were
\* iterated and whatever lookups went before.
C10_Deterministic ==
    \A m \in Resolved :
        /\ \A n \in dependency_names(m) :
             EntriesFor(m, n) =
                 ResolveName(Registry(map_umid, map_scoped, map_short),
                             Decl(m).class_name, n, ResolveImports(m)).entries
        /\ \A i \in 1 .. Len(dependencies[m]) :
             dependencies[m][i].name \in dependency_names(m)

\* a method with two raw names is resolved, the names answered by different
\* tiers
C10_Witness ==
    \E m \in Resolved :
        /\ Cardinality(dependency_names(m)) >= 2
        /\ \E i, j \in 1 .. Len(dependencies[m]) :
             /\ dependencies[m][i].name /= dependencies[m][j].name
             /\ i < j
             /\ dependencies[m][i].tier = "global"
             /\ dependencies[m][j].tier = "local"

\* C11: a completed parse yields a full dependency graph: when the parse has
\* finished, resolve_dependencies has been run on every method of every
\* file, the methods of nested classes and nested enums included (stated for
\* the projects whose umids are pairwise distinct).
C11_FullGraph == (DistinctUmids /\ ParseDone) => AllMethods \subseteq Resolved

----------------------------------------------------------------------------
(* Properties of the cache and of the generation pass (GenSpec)            *)

\* the cache was loaded and no description was generated since
JustLoaded == stage = "loaded"

\* C12: after load(cache_map) every registered method, every method that
\* add_method was called with, has the cached description if the cache has
\* an entry for its umid whose hash equals the hash of its body as it is
\* now, and the empty description otherwise; the outcome is decided by the
\* method's own hash and own entry alone.
C12_LoadOutcome ==
    JustLoaded =>
        \A m \in Built :
            /\ m \in DOMAIN description
            /\ description[m] =
                  IF /\ umid(m) \in DOMAIN method_cache
                     /\ method_cache[umid(m)].hash = compute_hash(body(m))
                  THEN method_cache[umid(m)].description
                  ELSE <<>>

\* the methods the payload of a call lists for generation
ListedForGeneration(t) ==
    IF t.input_data.start = "none" THEN {}
    ELSE {t.method_lookup[i] : i \in Requested(t.input_data)}

\* C13: cache idempotence: a method whose cache entry was made from a body
\* that differs from its body in whitespace only has the hash of the entry,
\* keeps the cached description after load, and is in no payload among the
\* methods listed for generation.
C13_CacheIdempotent ==
    \A m \in Built :
        (/\ umid(m) \in DOMAIN method_cache
         /\ method_cache[umid(m)].hash
               = compute_hash(PreviousBody(m, "respaced"))) =>
            /\ body_hash(m) = method_cache[umid(m)].hash
            /\ JustLoaded =>
                 /\ m \in DOMAIN description
                 /\ description[m] = method_cache[umid(m)].description
            /\ \A cl \in DOMAIN task : m \notin ListedForGeneration(task[cl])

\* C14: export() returns a map with exactly one entry per registered
\* method, keyed by umid, with the method's hash and description as they
\* are, and loading what was exported leaves every description as it was.
C14_ExportRoundTrip ==
    stage = "exported" =>
        /\ DOMAIN cache_file = {umid(m) : m \in Built}
        /\ Cardinality(DOMAIN cache_file) = Cardinality(Built)
        /\ \A m \in Built :
             /\ m \in DOMAIN description
             /\ cache_file[umid(m)] =
                  [hash |-> compute_hash(body(m)),
                   description |-> description[m]]
        /\ load_cache(cache_file) = description

\* the generator calls issued and not yet answered
InFlight == {cl \in DOMAIN task : task[cl].pc = "calling"}

\* C15: concurrency ceiling: in every reachable state of every interleaving
\* of the class tasks, the generator calls issued and not yet answered are
\* at most as many as the gate has slots, however many classes are
\* scheduled.
C15_Ceiling == Cardinality(InFlight) <= semaphore.slots

\* every slot is taken by a call in flight and two further classes queue
C15_Witness ==
    /\ semaphore.slots = SemaphoreSlots
    /\ Cardinality(InFlight) = SemaphoreSlots
    /\ Cardinality({cl \in DOMAIN task : task[cl].pc = "waiting"}) = 2

\* the tasks of both states of a step
Tasks == DOMAIN task \cap DOMAIN task'

\* the failure with text error_str is a rate limit or an unavailable service
TransientFailure(error_str) ==
    \E f \in Failures :
        f.text = error_str /\ f.class \in {"rate_limit", "unavailable"}

\* C16: bounded retry: a call makes at most max_retries attempts; an attempt
\* after the first is issued only after the attempt before it failed with a
\* transient error, a rate limit or an unavailable service, and the backoff
\* sleep that followed; once the call has returned, with a result or a
\* marker, no attempt follows.
C16_BoundedRetry ==
    [][\A cl \in Tasks :
         /\ task'[cl].attempt < max_retries
         /\ (task'[cl].pc = "calling" /\ task[cl].pc \notin {"calling"}) =>
               \/ /\ task[cl].pc \in {"scheduled", "waiting"}
                  /\ task'[cl].attempt = 0
               \/ /\ task[cl].pc = "sleeping"
                  /\ TransientFailure(task[cl].error_str)
                  /\ task'[cl].attempt = task[cl].attempt + 1
         /\ (task'[cl].pc = "calling" /\ task[cl].pc = "calling") =>
               task'[cl].attempt = task[cl].attempt
         /\ task[cl].pc = "done" => task'[cl] = task[cl]]_vars

\* what object e has under an attribute: the value, or nothing
Held(attribute, e) ==
    IF e \in DOMAIN attribute THEN <<attribute[e]>> ELSE <<>>

\* the descriptions and confidences of a class and of its methods
Annotations(cl, d, c) ==
    [e \in {cl} \cup Range(methods(cl)) |-> <<Held(d, e), Held(c, e)>>]

\* the return value is an error marker for class cl
IsMarkerOf(r, cl) ==
    /\ DOMAIN r = {"ucid", "error", "status"}
    /\ r.ucid = ucid(cl)
    /\ r.status = "error"
    /\ r.error \in ErrorTexts \cup {NoneTypeError}

\* C17: a failure that is not transient (neither a rate limit nor an
\* unavailable service) is never retried: no backoff sleep follows it, the
\* call ends with an error marker that carries the class id, status "error"
\* and the message, and the descriptions of the class stay as they were,
\* the class's own unset.
C17_HardFailureTerminal ==
    [][\A cl \in Tasks :
         task[cl].pc = "calling" =>
            /\ task'[cl].pc = "sleeping" =>
                  TransientFailure(task'[cl].error_str)
            /\ (task'[cl].pc = "done" /\ ~IsParsed(task'[cl].result)) =>
                  /\ IsMarkerOf(task'[cl].result, cl)
                  /\ cl \notin DOMAIN description'
                  /\ Annotations(cl, description', confidence')
                       = Annotations(cl, description, confidence)]_vars

\* C18: exhausting the retries demotes to a terminal failure: when the last
\* of the max_retries attempts fails, with a transient error as the ones
\* before it, the call ends there, without a further sleep or attempt, and
\* what it returns is the error marker (status "error") a failure that is
\* not transient returns.
C18_ExhaustedTerminal ==
    [][\A cl \in Tasks :
         (task[cl].pc = "calling" /\ task[cl].attempt = max_retries - 1
          /\ task'[cl] /= task[cl]) =>
            /\ task'[cl].pc = "done"
            /\ task'[cl].sleep = 0
            /\ IsParsed(task'[cl].result) \/ IsMarkerOf(task'[cl].result, cl)]_vars

\* a call has ended with the marker of a transient failure: its retries ran
\* out
C18_Witness ==
    \E cl \in DOMAIN task :
        /\ task[cl].pc = "done"
        /\ IsMarkerOf(task[cl].result, cl)
        /\ is_transient(task[cl].result.error)

\* the description the load gave method m: the cached one on a hit
Loaded(m) ==
    IF m \in RegisteredMethods /\ cache_hit(method_cache, m)
    THEN method_cache[umid(m)].description ELSE <<>>

\* C19: partial-failure isolation: in every interleaving of the class tasks
\* a step of one class's call, a terminal failure included, changes the task
\* of no other class (nothing is aborted or cancelled) and no description or
\* confidence outside that class and its methods; and a class whose own call
\* succeeds ends with the result it would have had if a class whose call
\* failed had succeeded: its result is a response to its own payload, merged
\* into it and its methods, and its payload is the one it would have sent
\* then, with a description, as every successful call leaves one, for each
\* nested class whose call has failed.
C19_Isolation ==
    [][\A cl \in Tasks :
         /\ task'[cl] /= task[cl] =>
               /\ \A other \in Tasks \ {cl} : task'[other] = task[other]
               /\ \A e \in (DOMAIN description' \cup DOMAIN confidence')
                             \ ({cl} \cup Range(methods(cl))) :
                     /\ Held(description', e) = Held(description, e)
                     /\ Held(confidence', e) = Held(confidence, e)
         /\ (task[cl].pc = "calling" /\ task'[cl].pc = "done"
             /\ IsParsed(task'[cl].result)) =>
               \E r \in Responses(task[cl].input_data) :
                  /\ task'[cl].result = remapped(r, task[cl].method_lookup)
                  /\ description'[cl] = r.description
                  /\ \A e \in r.methods :
                        e.method_id \in DOMAIN task[cl].method_lookup =>
                           description'[task[cl].method_lookup[e.method_id]]
                              = e.description
         /\ (task[cl].pc = "scheduled"
             /\ task'[cl].pc \in {"waiting", "calling"}
             /\ task'[cl].input_data.start = "warm") =>
               \A d \in Range(child_classes_values(cl)) \cap DOMAIN task :
                  (task[d].pc = "done" /\ IsMarkerOf(task[d].result, d)) =>
                     task'[cl].input_data.child_classes[class_signature(d)]
                        /= <<>>]_vars

\* the call ended with an error marker or with an exception
Failed(r) == "status" \in DOMAIN r /\ r.status \in {"error", "raised"}

\* the three indices of the registry
Indices == <<map_umid, map_scoped, map_short>>

\* C20: a generation call that fails leaves the description and confidence
\* of its class and of every method of the class as they were before the
\* call: no step of a call but its successful return changes them; and no
\* step of any generation call, failed or successful, adds, removes or
\* changes an entry of map_umid, map_scoped or map_short.
C20_FailedCallFrame ==
    [][stage = "generating" =>
         /\ Indices' = Indices
         /\ \A cl \in Tasks :
              (task'[cl] /= task[cl]
               /\ (task'[cl].pc = "done" => Failed(task'[cl].result))) =>
                 Annotations(cl, description', confidence')
                   = Annotations(cl, description, confidence)]_vars

\* a call has ended with an error marker; its class has no description,
\* one of its methods the cached one and another none, as the load left them
C20_Witness ==
    \E cl \in DOMAIN task :
        /\ task[cl].pc = "done"
        /\ IsMarkerOf(task[cl].result, cl)
        /\ cl \notin DOMAIN description /\ cl \notin DOMAIN confidence
        /\ \E m1, m2 \in Range(methods(cl)) :
             /\ Loaded(m1) /= <<>> /\ description[m1] = Loaded(m1)
             /\ description[m2] = <<>>
        /\ DOMAIN map_umid /= {}

\* the call of class cl has returned a result or an error marker
Finished(cl) ==
    /\ cl \in DOMAIN task
    /\ task[cl].pc = "done"
    /\ IsParsed(task[cl].result) \/ IsMarkerOf(task[cl].result, cl)

\* C21: under fair scheduling and a generator that answers every attempt, a
\* run completes: once the classes to annotate are scheduled, a state is
\* reached where every one of them has finished with a result or an error
\* marker (which only an attempt in flight produces, so every class that
\* waited at the gate has passed it).
C21_RunCompletes ==
    (task /= EmptyMap) ~> (\A cl \in DOMAIN task : Finished(cl))

\* what resolve_dependencies appends for raw name n of method m when it is
\* called with the import list of m's file
EntriesWithImports(m, n) ==
    ResolveName(Registry(map_umid, map_scoped, map_short),
                Decl(m).class_name, n, project[m[1]].imports).entries

\* the first tier that has a candidate for raw name n of method m
FirstTier(m, n) ==
    IF <<Decl(m).class_name, n>> \in DOMAIN map_scoped THEN "local"
    ELSE IF ImportsDefining(m, n) /= {} THEN "import"
    ELSE IF Subscript(map_short, n) /= <<>> THEN "global"
    ELSE "none"

\* C22: strict tier order: for each raw name the resolver, given the import
\* list of the method's file, consults the local tier, then the import tier,
\* then the global short-name tier and stops at the first tier that has a
\* candidate: every element it adds for the name comes from that tier, so a
\* name found locally or under an import is not resolved through the global
\* tier as well.
C22_StrictTierOrder ==
    \A m \in Built : \A n \in dependency_names(m) :
        \A i \in 1 .. Len(EntriesWithImports(m, n)) :
            EntriesWithImports(m, n)[i].tier = FirstTier(m, n)

\* the methods resolve_dependencies appends for method m, in order, when it
\* is called with the import list of m's file and takes the raw names in the
\* order names
Appended(m, names) ==
    LET es == ResolveNames(Registry(map_umid, map_scoped, map_short),
                           Decl(m).class_name, names,
                           project[m[1]].imports).entries
    IN  Flatten([i \in 1 .. Len(es) |-> es[i].targets])

\* C23: set semantics: the resolved dependency list of a method holds no
\* method more than once, also when a target is reached through several
\* imports, several raw names or more than one tier (stated for the projects
\* whose umids are pairwise distinct, the resolver given the import list of
\* the method's file).
C23_SetSemantics ==
    DistinctUmids =>
        \A m \in Built : \A names \in Orders(dependency_names(m)) :
            \A i, j \in 1 .. Len(Appended(m, names)) :
                i /= j => Appended(m, names)[i] /= Appended(m, names)[j]

\* C24: exponential backoff: the delay slept after the failed transient
\* attempt with index k is base_delay * 2^k, 2 after the first attempt and 4
\* after the second, each twice the one before; and exactly one sleep
\* separates two consecutive attempts: the attempt index moves only by one,
\* and only when a sleep ends.
C24_Backoff ==
    [][\A cl \in Tasks :
         /\ (task[cl].pc = "calling" /\ task'[cl].pc = "sleeping") =>
               /\ task[cl].attempt = 0 => task'[cl].sleep = 2
               /\ task[cl].attempt = 1 => task'[cl].sleep = 4
               /\ task[cl].attempt \in {0, 1}
               /\ task'[cl].attempt = task[cl].attempt
         /\ (task[cl].pc = "sleeping" /\ task'[cl] /= task[cl]) =>
               /\ task'[cl].pc = "calling"
               /\ task'[cl].attempt = task[cl].attempt + 1
         /\ (task'[cl].pc = "calling" /\ task'[cl].attempt /= task[cl].attempt)
               => task[cl].pc = "sleeping" /\ task[cl].sleep > 0]_vars

\* a call sleeps its second backoff
C24_Witness ==
    \E cl \in DOMAIN task :
        /\ task[cl].pc = "sleeping"
        /\ task[cl].attempt = 1
        /\ task[cl].sleep = 4

\* the payload of a call holds under index i what method m has: its
\* signature in a cold start, its body or its cached description in a warm
\* start
SentUnder(input, i, m) ==
    IF input.start = "cold"
    THEN input.method_ids_to_signatures[i] = signature(m)
    ELSE IF i \in DOMAIN input.methods_to_generate
    THEN input.methods_to_generate[i] = body(m)
    ELSE /\ i \in DOMAIN input.cached_methods
         /\ m \in DOMAIN description
         /\ input.cached_methods[i] = description[m]

\* C25: index stability: the index-to-method mapping of a call is fixed when
\* the call starts, before the payload is sent, and stays as it is while the
\* call waits at the gate, awaits the generator or sleeps, whatever the
\* other tasks do meanwhile, a change of the class's method collection
\* included; every entry the call returns under an index i of the payload
\* carries the umid of the method that was sent under i and is merged into
\* that method, and an entry under any other index is given no method.
C25_IndexStable ==
    [][\A cl \in Tasks :
         /\ (task[cl].pc = "scheduled"
             /\ task'[cl].pc \in {"waiting", "calling"}) =>
               /\ task'[cl].method_lookup = method_lookup(cl)
               /\ Indexed(task'[cl].input_data) = DOMAIN task'[cl].method_lookup
               /\ \A i \in DOMAIN task'[cl].method_lookup :
                     SentUnder(task'[cl].input_data, i,
                               task'[cl].method_lookup[i])
         /\ (task[cl].pc \in {"waiting", "calling", "sleeping"}
             /\ task'[cl].pc /= "done") =>
               /\ task'[cl].method_lookup = task[cl].method_lookup
               /\ task'[cl].input_data = task[cl].input_data
         /\ (task[cl].pc = "calling" /\ task'[cl].pc = "done"
             /\ IsParsed(task'[cl].result)) =>
               \A e \in task'[cl].result.methods :
                  IF e.method_id \in Indexed(task[cl].input_data)
                  THEN /\ "umid" \in DOMAIN e
                       /\ \E m \in Built :
                             /\ umid(m) = e.umid
                             /\ SentUnder(task[cl].input_data, e.method_id, m)
                             /\ description'[m] = e.description
                  ELSE "umid" \notin DOMAIN e]_vars

\* a warm call has returned an entry for its second method alone, after the
\* first method had left the collection of its class while the call was
\* suspended: the entry has the umid of the method that was second when the
\* call started, and is merged into it
C25_Witness ==
    \E cl \in DOMAIN task :
        /\ ~Unchanged(cl)
        /\ task[cl].pc = "done"
        /\ IsParsed(task[cl].result)
        /\ {e.method_id : e \in task[cl].result.methods} = {1}
        /\ \A e \in task[cl].result.methods :
             /\ e.umid = umid(ClassMethods(cl[1], cl[2])[2])
             /\ description[ClassMethods(cl[1], cl[2])[2]] = e.description

\* the calls that hold a payload
Started == {cl \in DOMAIN task : task[cl].pc \in {"waiting", "calling", "sleeping"}}

\* C26: payload shaping: a call builds the cold-start payload exactly when
\* no method of the class has a description that is not empty and the
\* warm-start payload otherwise, so every call that has run has built one of
\* the two; in a warm-start payload the indices of cached_methods and those of
\* methods_to_generate are disjoint and together are every method index, a
\* method is in methods_to_generate exactly when its description is empty,
\* and the bodies sent are those of these methods and no others.
C26_PayloadShape ==
    /\ \A cl \in DOMAIN task :
         task[cl].pc = "done" =>
            IsParsed(task[cl].result) \/ IsMarkerOf(task[cl].result, cl)
    /\ \A cl \in Started :
        LET input == task[cl].input_data
            lookup == task[cl].method_lookup
        IN  /\ input.start \in {"cold", "warm"}
            /\ input.start = "cold"
                 <=> \A m \in Range(methods(cl)) : description[m] = <<>>
            /\ input.start = "cold" =>
                 DOMAIN input.method_ids_to_signatures = DOMAIN lookup
            /\ input.start = "warm" =>
                 /\ DOMAIN input.cached_methods
                      \cap DOMAIN input.methods_to_generate = {}
                 /\ DOMAIN input.cached_methods
                      \cup DOMAIN input.methods_to_generate
                        = 0 .. Len(methods(cl)) - 1
                 /\ \A i \in DOMAIN lookup :
                      i \in DOMAIN input.methods_to_generate
                        <=> description[lookup[i]] = <<>>
                 /\ \A i \in DOMAIN input.methods_to_generate :
                      input.methods_to_generate[i] = body(lookup[i])
                 /\ \A i \in DOMAIN input.cached_methods :
                      input.cached_methods[i] = description[lookup[i]]
                 /\ "code" \notin DOMAIN input

\* the member nodes of the built classes that lack an expected child have
\* given entities with the placeholder identifiers
Placeholders ==
    \A f \in Range(files) : \A cl \in FileClasses(f) :
        LET node == project[cl[1]].classes[cl[2]]
        IN  /\ \A i \in 1 .. Len(node.methods) :
                 ("name_node" \in DOMAIN node.methods[i]
                  /\ ~node.methods[i].name_node) =>
                    /\ identifier(methods(cl)[i]) = "<init>"
                    /\ umid(methods(cl)[i]) \in DOMAIN map_umid
            /\ "fields" \in DOMAIN node =>
                 \A i \in 1 .. Len(node.fields) :
                    ~(node.fields[i].declarator /\ node.fields[i].name_node)
                       => "Unknown" \in DOMAIN fields(cl)

\* C27: the builder never aborts a file build because of one malformed
\* member: the parse is not ended by a class, method or field node that
\* lacks an expected child, every .java file the traversal has visited has
\* given its file entity, with the members that follow the malformed one,
\* and the malformed member has given an entity with the placeholder
\* identifier.
C27_NeverAborts ==
    /\ stage /= "aborted"
    /\ \A f \in FileIds \ pending :
         project[f].suffix = ".java" => f \in Range(files)
    /\ Placeholders

\* C28: generate_description is total: whatever the generator answers
\* (a response, a response that cannot be read, a transient or another
\* error), a call makes at most max_retries attempts, sleeps only when an
\* attempt is left, and what it returns is a parsed result or an error
\* marker with status "error" for its class; no exception leaves the call
\* and no call returns without a value.
C28_Total ==
    \A cl \in DOMAIN task :
        /\ task[cl].attempt < max_retries
        /\ task[cl].pc = "sleeping" => task[cl].attempt < max_retries - 1
        /\ task[cl].pc = "done" =>
              \/ IsParsed(task[cl].result) /\ ~IsError(task[cl].result)
              \/ IsMarkerOf(task[cl].result, cl)
        /\ task[cl].pc /= "done" => task[cl].result = NewTask.result

\* the call of class cl holds a slot of the gate: it has an attempt in
\* flight or sleeps in backoff
Holds(t, cl) == t[cl].pc \in {"calling", "sleeping"}

\* the calls that hold a slot of the gate
Holding(t) == {cl \in DOMAIN t : Holds(t, cl)}

\* the calls a slot was handed to while they waited at the gate, and that
\* have not run since
Woken(sem) == sem.woken

\* C29: a call holds its slot from its first attempt until it returns, the
\* backoff sleeps included, and gives it back exactly once, when it returns
\* (with a result or a marker): the free slots are always the slots of the
\* gate less the calls in flight or asleep and the waiting calls a slot was
\* handed to, which together never exceed the slots; a call that waits at
\* the gate is handed a slot only when a call that holds one returns, and
\* its admission moves no slot; and when no call is in flight, asleep or
\* handed a slot every slot is free.
C29_SlotHeld ==
    [][/\ semaphore'.slots = semaphore.slots
       /\ semaphore'.value = semaphore.slots - Cardinality(Holding(task'))
                               - Cardinality(Woken(semaphore'))
       /\ semaphore'.value >= 0
       /\ (Holding(task') = {} /\ Woken(semaphore') = {})
             => semaphore'.value = semaphore.slots
       /\ \A cl \in Tasks :
            /\ (Holds(task, cl) /\ task'[cl].pc /= "done") =>
                  /\ Holds(task', cl)
                  /\ task'[cl] /= task[cl] => semaphore' = semaphore
            /\ (Holds(task, cl) /\ task'[cl].pc = "done") =>
                  semaphore'.value + Cardinality(Woken(semaphore'))
                    = semaphore.value + Cardinality(Woken(semaphore)) + 1
            /\ task[cl].pc = "done" =>
                  task'[cl].pc = "done"
            /\ (cl \in Woken(semaphore') \ Woken(semaphore)) =>
                  /\ task[cl].pc = "waiting"
                  /\ \E d \in Holding(task) : task'[d].pc = "done"
            /\ (task[cl].pc = "waiting" /\ task'[cl].pc /= "waiting") =>
                  /\ task'[cl].pc = "calling"
                  /\ cl \in Woken(semaphore)
                  /\ semaphore'.value = semaphore.value]_vars

\* C29 as amended: a call holds its slot from its first attempt until it
\* returns, the backoff sleeps included, and gives it back exactly once,
\* when it returns: the free slots are always the slots of the gate less
\* the calls in flight or asleep and the waiting calls a slot was handed to,
\* which together never exceed the slots; a call that waits at the gate is
\* admitted only into a slot a returned call has given back, which is handed
\* to it when a call that holds a slot returns or, the slot being free
\* while the call queues behind one a slot was handed to, when that one is
\* admitted; and when no call is in flight, asleep or handed a slot every
\* slot is free.
C29_SlotHandedOn ==
    [][/\ semaphore'.slots = semaphore.slots
       /\ semaphore'.value = semaphore.slots - Cardinality(Holding(task'))
                               - Cardinality(Woken(semaphore'))
       /\ semaphore'.value >= 0
       /\ (Holding(task') = {} /\ Woken(semaphore') = {})
             => semaphore'.value = semaphore.slots
       /\ \A cl \in Tasks :
            /\ (Holds(task, cl) /\ task'[cl].pc /= "done") =>
                  /\ Holds(task', cl)
                  /\ task'[cl] /= task[cl] => semaphore' = semaphore
            /\ (Holds(task, cl) /\ task'[cl].pc = "done") =>
                  semaphore'.value + Cardinality(Woken(semaphore'))
                    = semaphore.value + Cardinality(Woken(semaphore)) + 1
            /\ task[cl].pc = "done" =>
                  task'[cl].pc = "done"
            /\ (cl \in Woken(semaphore') \ Woken(semaphore)) =>
                  /\ task[cl].pc = "waiting"
                  /\ \/ \E d \in Holding(task) : task'[d].pc = "done"
                     \/ /\ semaphore.value > 0
                        /\ \E d \in Woken(semaphore) :
                              /\ task[d].pc = "waiting"
                              /\ task'[d].pc = "calling"
                              /\ semaphore'.value + Cardinality(Woken(semaphore'))
                                    = semaphore.value
                                        + Cardinality(Woken(semaphore)) - 1
            /\ (task[cl].pc = "waiting" /\ task'[cl].pc /= "waiting") =>
                  /\ task'[cl].pc = "calling"
                  /\ cl \in Woken(semaphore)
                  /\ semaphore'.value <= semaphore.value]_vars

\* a slot is free while two calls still queue at the gate, the first handed
\* a slot by a call that returned, the second come after another call
\* returned: the admission of the first hands the free slot to the second
C29_Witness ==
    /\ semaphore.value > 0
    /\ Len(semaphore.waiters) = 2
    /\ semaphore.waiters[1] \in Woken(semaphore)
    /\ semaphore.waiters[2] \notin Woken(semaphore)
    /\ \A cl \in Range(semaphore.waiters) : task[cl].pc = "waiting"

\* the error texts in which "503" or "429" occurs, named by the failures
\* they come from: the two the service reports under these codes, and the
\* invalid request, whose message quotes 15030
CodeTexts ==
    {f.text : f \in {g \in Failures :
                        g.class \in {"unavailable", "rate_limit",
                                      "invalid_argument"}}}

\* C30: a failure of the generator is retried, after a backoff sleep, if and
\* only if its error text contains "503" or "429" and attempts remain; what
\* kind of failure it is plays no part.  Every other failure ends the call
\* with the error marker where it occurs, the first attempt included.
C30_TextClassifies ==
    [][\A cl \in Tasks :
         (task[cl].pc = "calling" /\ task'[cl] /= task[cl]) =>
            /\ task'[cl].pc = "sleeping" =>
                  /\ task'[cl].error_str \in CodeTexts
                  /\ task[cl].attempt < max_retries - 1
            /\ (task'[cl].pc = "done" /\ IsMarkerOf(task'[cl].result, cl)) =>
                  \/ task'[cl].result.error \notin CodeTexts
                  \/ task[cl].attempt = max_retries - 1]_vars

\* one call sleeps before it retries the invalid request, a failure no
\* retry can cure, while another has ended with the marker of a timeout,
\* whose text is empty
C30_Witness ==
    \E cl, other \in DOMAIN task :
        /\ task[cl].pc = "sleeping"
        /\ \E f \in Failures :
              f.class = "invalid_argument" /\ task[cl].error_str = f.text
        /\ task[other].pc = "done"
        /\ IsMarkerOf(task[other].result, other)
        /\ \E f \in Failures :
              f.class = "timeout" /\ task[other].result.error = f.text

====
